---- MODULE Spec2Model ----
(***************************************************************************)
(* Route-parameter compilation and binding (src/parametrizeable.go) and    *)
(* the mutex-protected configuration map (src/config/config.go) of goyave. *)
(*                                                                         *)
(* A Go string is modelled as a sequence of one-character strings; byte    *)
(* offsets are kept 0-based as in the source (see At and Slice).           *)
(***************************************************************************)
EXTENDS Integers, Sequences, FiniteSets, TLC

VARIABLES
    regex,        \* p.regex: NilRegex or the compiled expression
    parameters,   \* p.parameters
    uri, ends,    \* arguments of the last compileParameters call
    idxs,         \* what braceIndices returned in that call (<<>> for nil)
    outcome,      \* how that call ended: "ok" or the panic it raised
    wraps,        \* history: for each placeholder written to the builder in
                  \* that call, the offsets <<open, close>> of its "(" and ")"
    request,      \* the request being matched against the Matchable, if any
    heap,         \* the maps allocated by make, by address (1, 2, ..)
    gor,          \* per goroutine: its makeParameters call (pc and locals)
    config,       \* the package variable config of package config
    mutex,        \* the package variable mutex: a sync.RWMutex
    caller        \* per goroutine: its call of a config function

matchable == <<regex, parameters, uri, ends, idxs, outcome, wraps>>
binders == <<heap, gor>>
configVars == <<config, mutex, caller>>

vars == <<matchable, request, binders, configVars>>

-----------------------------------------------------------------------------
(* Go string primitives *)

\* s[i] of Go, i a 0-based offset
At(s, i) == s[i + 1]

\* s[lo:hi] of Go
Slice(s, lo, hi) == SubSeq(s, lo + 1, hi)

SplitLast(sub) ==
    IF \E i \in 1..Len(sub) : sub[i] = ":"
    THEN LET i == CHOOSE k \in 1..Len(sub) :
                      sub[k] = ":" /\ \A j \in (k + 1)..Len(sub) : sub[j] # ":"
         IN  <<SubSeq(sub, 1, i - 1), SubSeq(sub, i + 1, Len(sub))>>
    ELSE <<sub>>

\* strings.SplitN(sub, ":", 2): the text before the first ':' and, if there is
\* a ':', the text after it
SplitN(sub) ==
    IF \E i \in 1..Len(sub) : sub[i] = ":"
    THEN LET i == CHOOSE k \in 1..Len(sub) :
                      sub[k] = ":" /\ \A j \in 1..(k - 1) : sub[j] # ":"
         IN  <<SubSeq(sub, 1, i - 1), SubSeq(sub, i + 1, Len(sub))>>
    ELSE <<sub>>

-----------------------------------------------------------------------------
(* braceIndices *)

segmentStartInnermost(level, idx, i) == i

\* idx after a '{' at offset i has raised the depth to level
segmentStart(level, idx, i) == IF level = 1 THEN i ELSE idx

emptySegmentLate(idx, i) == i = idx + 2

emptySegmentNever(idx, i) == FALSE

\* the test for an empty segment when the '}' at offset i closes the segment
\* opened at offset idx
emptySegment(idx, i) == i = idx + 1

scanEndUnchecked(level, indices) == [err |-> "ok", indices |-> indices]

scanEndOffByOne(level, indices) ==
    IF level > 1
    THEN [err |-> "unbalanced", indices |-> <<>>]
    ELSE [err |-> "ok", indices |-> indices]

\* the check after the loop
scanEnd(level, indices) ==
    IF level # 0
    THEN [err |-> "unbalanced", indices |-> <<>>]
    ELSE [err |-> "ok", indices |-> indices]

\* the loop of braceIndices from offset i on, with its locals level, idx and
\* indices; the result is the error (or "ok") and the indices returned
RECURSIVE braceScan(_, _, _, _, _)
braceScan(s, i, level, idx, indices) ==
    IF i >= Len(s)
    THEN scanEnd(level, indices)
    ELSE IF At(s, i) = "{"
         THEN braceScan(s, i + 1, level + 1,
                        segmentStart(level + 1, idx, i), indices)
         ELSE IF At(s, i) = "}"
              THEN IF level - 1 = 0
                   THEN IF emptySegment(idx, i)
                        THEN [err |-> "empty", indices |-> <<>>]
                        ELSE braceScan(s, i + 1, level - 1, idx,
                                       indices \o <<idx, i>>)
                   ELSE IF level - 1 < 0
                        THEN [err |-> "unbalanced", indices |-> <<>>]
                        ELSE braceScan(s, i + 1, level - 1, idx, indices)
              ELSE braceScan(s, i + 1, level, idx, indices)

braceIndices(s) == braceScan(s, 0, 0, 0, <<>>)

-----------------------------------------------------------------------------
(* regexp.MustCompile and NumSubexp, as far as a template can reach them.    *)
(* The expression is parsed the way Go's regexp/syntax parses Perl syntax:   *)
(* a stack of operands with "leftParen" markers.  The characters             *)
(* '|', '.', '*', ',' and the backslash are not in the alphabet of the       *)
(* templates checked, so alternation, wildcards, escapes and {n,m} do not    *)
(* occur.                                                                   *)

\* the characters of the model in ASCII order, for the ranges of a class
AsciiOrder ==
    <<"(", ")", "+", "-", "/", "0", "1", "2", "3", "4", "5", "6", "7", "8",
      "9", ":", "?", "U", "[", "]", "^", "a", "b", "c", "d", "e", "f", "i",
      "l", "m", "o", "p", "r", "s", "t", "u", "x", "y", "z", "{", "}">>

Code(c) == CHOOSE k \in 1..Len(AsciiOrder) : AsciiOrder[k] = c

Digits == <<"0", "1", "2", "3", "4", "5", "6", "7", "8", "9">>

IsDigit(c) == \E k \in 1..Len(Digits) : Digits[k] = c

DigitVal(c) == (CHOOSE k \in 1..Len(Digits) : Digits[k] = c) - 1

\* the operands of an expression
Lit(c) == [op |-> "lit", c |-> c]
CharClass(neg, ranges) == [op |-> "class", neg |-> neg, ranges |-> ranges]
EmptyMatch == [op |-> "empty"]
BeginText == [op |-> "bol"]
EndText == [op |-> "eol"]
Concat(subs) == [op |-> "cat", subs |-> subs]
Capture(n, sub) == [op |-> "cap", cap |-> n, sub |-> sub]
Repeat(min, max, greedy, sub) ==
    [op |-> "rep", min |-> min, max |-> max, greedy |-> greedy, sub |-> sub]
\* the marker '(' pushes; cap = 0 for a non-capturing group
LeftParen(n) == [op |-> "leftParen", cap |-> n]

ParseError == [ok |-> FALSE]

\* a nil *regexp.Regexp
NilRegex ==
    [nil |-> TRUE, src |-> <<>>, prog |-> EmptyMatch, ncap |-> 0,
     capAt |-> <<>>]

\* parser.concat: the operands above the topmost marker become one operand
TopMarker(stack) ==
    IF \E k \in 1..Len(stack) : stack[k].op = "leftParen"
    THEN CHOOSE k \in 1..Len(stack) :
             /\ stack[k].op = "leftParen"
             /\ \A j \in (k + 1)..Len(stack) : stack[j].op # "leftParen"
    ELSE 0

concat(stack) ==
    LET k == TopMarker(stack)
        subs == SubSeq(stack, k + 1, Len(stack))
        node == IF Len(subs) = 0 THEN EmptyMatch
                ELSE IF Len(subs) = 1 THEN subs[1]
                ELSE Concat(subs)
    IN  SubSeq(stack, 1, k) \o <<node>>

\* parser.parseInt from offset j: the number read and the offset after it
RECURSIVE intScan(_, _, _)
intScan(t, j, n) ==
    IF j < Len(t) /\ IsDigit(At(t, j))
    THEN intScan(t, j + 1, n * 10 + DigitVal(At(t, j)))
    ELSE [n |-> n, next |-> j]

parseInt(t, j) ==
    IF j >= Len(t) \/ ~IsDigit(At(t, j))
    THEN [ok |-> FALSE]
    ELSE IF j + 1 < Len(t) /\ At(t, j) = "0" /\ IsDigit(At(t, j + 1))
         THEN [ok |-> FALSE]
         ELSE LET r == intScan(t, j, 0)
              IN  [ok |-> TRUE, n |-> r.n, next |-> r.next]

\* parser.parseRepeat on the '{' at offset i: {n}
parseRepeat(t, i) ==
    LET m == parseInt(t, i + 1)
    IN  IF ~m.ok THEN [ok |-> FALSE]
        ELSE IF m.next >= Len(t) \/ At(t, m.next) # "}"
             THEN [ok |-> FALSE]
             ELSE [ok |-> TRUE, min |-> m.n, max |-> m.n, next |-> m.next + 1]

\* parser.parseClass from the offset after '[' and '^'
RECURSIVE classScan(_, _, _, _)
classScan(t, j, first, ranges) ==
    IF j >= Len(t) THEN [ok |-> FALSE]
    ELSE IF At(t, j) = "]" /\ ~first
         THEN [ok |-> TRUE, ranges |-> ranges, next |-> j + 1]
         ELSE IF j + 2 < Len(t) /\ At(t, j + 1) = "-" /\ At(t, j + 2) # "]"
              THEN IF Code(At(t, j + 2)) < Code(At(t, j))
                   THEN [ok |-> FALSE]
                   ELSE classScan(t, j + 3, FALSE,
                                  Append(ranges, <<At(t, j), At(t, j + 2)>>))
              ELSE classScan(t, j + 1, FALSE,
                             Append(ranges, <<At(t, j), At(t, j)>>))

parseClass(t, i) ==
    LET neg == i + 1 < Len(t) /\ At(t, i + 1) = "^"
        r == classScan(t, IF neg THEN i + 2 ELSE i + 1, TRUE, <<>>)
    IN  IF r.ok
        THEN [ok |-> TRUE, node |-> CharClass(neg, r.ranges), next |-> r.next]
        ELSE [ok |-> FALSE]

\* parser.parsePerlFlags from the offset after "(?": a non-capturing group
\* opens at ':', a flag setting ends at ')'
FlagChars == {"i", "m", "s", "U"}

RECURSIVE flagScan(_, _, _, _, _)
flagScan(t, j, sign, sawFlag, any) ==
    IF j >= Len(t) THEN [ok |-> FALSE]
    ELSE LET c == At(t, j)
         IN  IF c \in FlagChars THEN flagScan(t, j + 1, sign, TRUE, TRUE)
             ELSE IF c = "-"
                  THEN IF sign < 0 THEN [ok |-> FALSE]
                       ELSE flagScan(t, j + 1, -1, FALSE, any)
                  ELSE IF c = ":" \/ c = ")"
                       THEN IF sign < 0 /\ ~sawFlag THEN [ok |-> FALSE]
                            ELSE [ok |-> TRUE, group |-> (c = ":"),
                                  flagged |-> any, next |-> j + 1]
                       ELSE [ok |-> FALSE]

\* parser.repeat: the operand on top of the stack is repeated; a '?' after the
\* operator makes it lazy; two operators in a row and an operator with no
\* operand are errors.  after is the offset behind the operator.
repeat(t, stack, min, max, after, lastRepeat) ==
    LET lazy == after < Len(t) /\ At(t, after) = "?"
        n == Len(stack)
    IN  IF lastRepeat THEN [ok |-> FALSE]
        ELSE IF n = 0 THEN [ok |-> FALSE]
        ELSE IF stack[n].op = "leftParen" THEN [ok |-> FALSE]
        ELSE [ok |-> TRUE,
              stack |-> SubSeq(stack, 1, n - 1)
                          \o <<Repeat(min, max, ~lazy, stack[n])>>,
              next |-> IF lazy THEN after + 1 ELSE after]

\* the loop of syntax.Parse from offset i; ncap is parser.numCap, capAt the
\* offsets of the '(' that opened capturing groups 1, 2, ..
RECURSIVE parseLoop(_, _, _, _, _, _, _)
parseLoop(t, i, stack, ncap, capAt, lastRepeat, flagged) ==
    IF i >= Len(t)
    THEN LET st == concat(stack)
         IN  IF Len(st) # 1 THEN ParseError
             ELSE [ok |-> TRUE, prog |-> st[1], ncap |-> ncap,
                   capAt |-> capAt, flagged |-> flagged]
    ELSE LET c == At(t, i)
         IN
         CASE c = "(" ->
                IF i + 1 < Len(t) /\ At(t, i + 1) = "?"
                THEN LET f == flagScan(t, i + 2, 1, FALSE, FALSE)
                     IN  IF ~f.ok THEN ParseError
                         ELSE parseLoop(t, f.next,
                                  IF f.group THEN Append(stack, LeftParen(0))
                                  ELSE stack,
                                  ncap, capAt, FALSE, flagged \/ f.flagged)
                ELSE parseLoop(t, i + 1, Append(stack, LeftParen(ncap + 1)),
                               ncap + 1, Append(capAt, i), FALSE, flagged)
           [] c = ")" ->
                LET st == concat(stack)
                    n == Len(st)
                IN  IF n < 2 THEN ParseError
                    ELSE IF st[n - 1].op # "leftParen" THEN ParseError
                    ELSE parseLoop(t, i + 1,
                             SubSeq(st, 1, n - 2)
                               \o <<IF st[n - 1].cap = 0 THEN st[n]
                                    ELSE Capture(st[n - 1].cap, st[n])>>,
                             ncap, capAt, FALSE, flagged)
           [] c = "^" ->
                parseLoop(t, i + 1, Append(stack, BeginText), ncap, capAt,
                          FALSE, flagged)
           [] c = "$" ->
                parseLoop(t, i + 1, Append(stack, EndText), ncap, capAt,
                          FALSE, flagged)
           [] c = "[" ->
                LET r == parseClass(t, i)
                IN  IF ~r.ok THEN ParseError
                    ELSE parseLoop(t, r.next, Append(stack, r.node), ncap,
                                   capAt, FALSE, flagged)
           [] c = "+" \/ c = "?" ->
                LET r == repeat(t, stack, IF c = "+" THEN 1 ELSE 0,
                                IF c = "+" THEN -1 ELSE 1, i + 1, lastRepeat)
                IN  IF ~r.ok THEN ParseError
                    ELSE parseLoop(t, r.next, r.stack, ncap, capAt, TRUE,
                                   flagged)
           [] c = "{" ->
                \* a repeat count above 1000 is rejected
                LET b == parseRepeat(t, i)
                IN  IF ~b.ok
                    THEN parseLoop(t, i + 1, Append(stack, Lit(c)), ncap,
                                   capAt, FALSE, flagged)
                    ELSE IF b.min > 1000 THEN ParseError
                    ELSE LET r == repeat(t, stack, b.min, b.max, b.next,
                                         lastRepeat)
                         IN  IF ~r.ok THEN ParseError
                             ELSE parseLoop(t, r.next, r.stack, ncap, capAt,
                                            TRUE, flagged)
           [] OTHER ->
                parseLoop(t, i + 1, Append(stack, Lit(c)), ncap, capAt,
                          FALSE, flagged)

\* regexp.Compile(src): ok is false where MustCompile panics
Compile(src) == parseLoop(src, 0, <<>>, 0, <<>>, FALSE, FALSE)

\* Regexp.NumSubexp
NumSubexp(re) == re.ncap

-----------------------------------------------------------------------------
(* compileParameters *)

DefaultPatternNoColon == <<"[", "^", ":", "]", "+">>

\* the default pattern of a placeholder, "[^/]+"
DefaultPattern == <<"[", "^", "/", "]", "+">>

checkPartsPatternFirst(parts) ==
    IF Len(parts) = 2 /\ parts[2] = <<>> THEN "missing_pattern"
    ELSE IF parts[1] = <<>> THEN "missing_name"
    ELSE "ok"

\* the two checks on a placeholder body split into parts
checkParts(parts) ==
    IF parts[1] = <<>> THEN "missing_name"
    ELSE IF Len(parts) = 2 /\ parts[2] = <<>> THEN "missing_pattern"
    ELSE "ok"

\* the pattern written for a placeholder
patternOf(parts) == IF Len(parts) = 2 THEN parts[2] ELSE DefaultPattern

appendNameDropped(params, name) == params

\* p.parameters = append(p.parameters, parts[0])
appendName(params, name) == Append(params, name)

\* the loop over the pairs of idxs from index i on (i counts from 0 in steps
\* of 2), with the locals end and builder and the field p.parameters
RECURSIVE compileLoop(_, _, _, _, _, _, _)
compileLoop(u, ix, i, end, builder, params, wr) ==
    IF i >= Len(ix)
    THEN [err |-> "ok", builder |-> builder, params |-> params, end |-> end,
          wraps |-> wr]
    ELSE LET raw == Slice(u, end, At(ix, i))
             end2 == At(ix, i + 1)
             sub == Slice(u, At(ix, i) + 1, end2)
             parts == SplitN(sub)
             err == checkParts(parts)
         IN  IF err # "ok"
             THEN [err |-> err, builder |-> builder, params |-> params,
                   end |-> end2, wraps |-> wr]
             ELSE LET pattern == patternOf(parts)
                      open == Len(builder) + Len(raw)
                  IN  compileLoop(u, ix, i + 2, end2 + 1,
                          builder \o raw \o <<"(">> \o pattern \o <<")">>,
                          appendName(params, parts[1]),
                          Append(wr, <<open, open + Len(pattern) + 1>>))

groupCheckOff(n, length) == "ok"

\* the check of the capturing-group count after MustCompile
groupCheck(n, length) ==
    IF n # length \div 2 THEN "capture_groups" ELSE "ok"

endAnchorAlways(e) == <<"$">>

\* the end anchor
endAnchor(e) == IF e THEN <<"$">> ELSE <<>>

\* one call p.compileParameters(u, e) on a Matchable whose fields are re and
\* params: the fields after the call, what braceIndices returned, and how the
\* call ended.  A panic leaves the fields as the statements before it set
\* them.
compileCall(re, params, u, e) ==
    LET s == braceIndices(u)
    IN  IF s.err # "ok"
        THEN [regex |-> re, parameters |-> params, idxs |-> s.indices,
              outcome |-> s.err, wraps |-> <<>>]
        ELSE
        LET length == Len(s.indices)
            r == IF length > 0
                 THEN compileLoop(u, s.indices, 0, 0, <<"^">>, params, <<>>)
                 ELSE [err |-> "ok", builder |-> <<"^">>, params |-> params,
                       end |-> 0, wraps |-> <<>>]
        IN  IF r.err # "ok"
            THEN [regex |-> re, parameters |-> r.params,
                  idxs |-> s.indices, outcome |-> r.err, wraps |-> r.wraps]
            ELSE
            LET tail == IF length > 0 THEN Slice(u, r.end, Len(u)) ELSE u
                src == r.builder \o tail \o endAnchor(e)
                c == Compile(src)
            IN  IF ~c.ok
                THEN [regex |-> re, parameters |-> r.params,
                      idxs |-> s.indices, outcome |-> "invalid_regex",
                      wraps |-> r.wraps]
                ELSE [regex |-> [nil |-> FALSE, src |-> src, prog |-> c.prog,
                                 ncap |-> c.ncap, capAt |-> c.capAt],
                      parameters |-> r.params, idxs |-> s.indices,
                      outcome |-> groupCheck(NumSubexp(c), length),
                      wraps |-> r.wraps]

\* p.compileParameters(u, e)
compileParameters(u, e) ==
    LET r == compileCall(regex, parameters, u, e)
    IN  /\ regex' = r.regex
        /\ parameters' = r.parameters
        /\ idxs' = r.idxs
        /\ outcome' = r.outcome
        /\ wraps' = r.wraps
        /\ uri' = u
        /\ ends' = e
        /\ UNCHANGED <<request, binders, configVars>>

-----------------------------------------------------------------------------
(* Regexp.FindStringSubmatch: the match a backtracking search finds first     *)
(* (leftmost, and among those the one of highest priority).  matchNode lists *)
(* the ways an operand can match at offset i, best first, each with the      *)
(* offset after it and the captures so far.                                  *)

inClass(node, c) ==
    LET hit == \E r \in 1..Len(node.ranges) :
                   /\ Code(node.ranges[r][1]) <= Code(c)
                   /\ Code(c) <= Code(node.ranges[r][2])
    IN  IF node.neg THEN ~hit ELSE hit

RECURSIVE matchNode(_, _, _, _)
RECURSIVE matchSeq(_, _, _, _, _)
RECURSIVE matchRep(_, _, _, _, _)
RECURSIVE thenSeq(_, _, _, _, _)
RECURSIVE thenRep(_, _, _, _, _, _)

matchNode(n, s, i, caps) ==
    CASE n.op = "lit" ->
            IF i < Len(s) /\ At(s, i) = n.c
            THEN <<[pos |-> i + 1, caps |-> caps]>> ELSE <<>>
      [] n.op = "class" ->
            IF i < Len(s) /\ inClass(n, At(s, i))
            THEN <<[pos |-> i + 1, caps |-> caps]>> ELSE <<>>
      [] n.op = "empty" -> <<[pos |-> i, caps |-> caps]>>
      [] n.op = "bol" ->
            IF i = 0 THEN <<[pos |-> i, caps |-> caps]>> ELSE <<>>
      [] n.op = "eol" ->
            IF i = Len(s) THEN <<[pos |-> i, caps |-> caps]>> ELSE <<>>
      [] n.op = "cat" -> matchSeq(n.subs, 1, s, i, caps)
      [] n.op = "cap" ->
            LET rs == matchNode(n.sub, s, i, caps)
            IN  [k \in 1..Len(rs) |->
                    [pos |-> rs[k].pos,
                     caps |-> [rs[k].caps EXCEPT
                                 ![n.cap] = Slice(s, i, rs[k].pos)]]]
      [] n.op = "rep" -> matchRep(n, s, i, caps, 0)

\* the operands subs[k..] in a row
matchSeq(subs, k, s, i, caps) ==
    IF k > Len(subs) THEN <<[pos |-> i, caps |-> caps]>>
    ELSE thenSeq(matchNode(subs[k], s, i, caps), 1, subs, k + 1, s)

thenSeq(rs, j, subs, k, s) ==
    IF j > Len(rs) THEN <<>>
    ELSE matchSeq(subs, k, s, rs[j].pos, rs[j].caps)
           \o thenSeq(rs, j + 1, subs, k, s)

\* a repetition that has matched cnt times: one more first if greedy
matchRep(n, s, i, caps, cnt) ==
    LET more == IF n.max = -1 \/ cnt < n.max
                THEN thenRep(matchNode(n.sub, s, i, caps), 1, n, s, i, cnt + 1)
                ELSE <<>>
        stop == IF cnt >= n.min THEN <<[pos |-> i, caps |-> caps]>> ELSE <<>>
    IN  IF n.greedy THEN more \o stop ELSE stop \o more

thenRep(rs, j, n, s, i, cnt) ==
    IF j > Len(rs) THEN <<>>
    ELSE (IF rs[j].pos > i THEN matchRep(n, s, rs[j].pos, rs[j].caps, cnt)
          ELSE <<rs[j]>>)
           \o thenRep(rs, j + 1, n, s, i, cnt)

\* the first offset from start on at which the expression matches
RECURSIVE findFrom(_, _, _)
findFrom(re, s, start) ==
    IF start > Len(s) THEN [matched |-> FALSE, full |-> <<>>, caps |-> <<>>]
    ELSE LET rs == matchNode(re.prog, s, start, [k \in 1..re.ncap |-> <<>>])
         IN  IF Len(rs) > 0
             THEN [matched |-> TRUE, full |-> Slice(s, start, rs[1].pos),
                   caps |-> rs[1].caps]
             ELSE findFrom(re, s, start + 1)

\* re.FindStringSubmatch(s): matched is false for a nil result; otherwise the
\* full match and the text of each capturing group
FindStringSubmatch(re, s) == findFrom(re, s, 0)

-----------------------------------------------------------------------------
(* makeParameters *)

mapAssignKeepFirst(params, k, v) ==
    [x \in (DOMAIN params) \cup {k} |->
        IF x \in DOMAIN params THEN params[x] ELSE v]

\* params[k] = v on a Go map
mapAssign(params, k, v) ==
    [x \in (DOMAIN params) \cup {k} |-> IF x = k THEN v ELSE params[x]]

\* the range loop of makeParameters from index i on
RECURSIVE makeLoop(_, _, _, _)
makeLoop(match, names, i, params) ==
    IF i >= Len(match) THEN params
    ELSE makeLoop(match, names, i + 1,
                  mapAssign(params, At(names, i), At(match, i)))

\* p.makeParameters(match, names), for len(names) >= len(match)
makeParameters(match, names) == makeLoop(match, names, 0, <<>>)

-----------------------------------------------------------------------------
(* Matching a request path against a compiled Matchable *)

NoRequest ==
    [active |-> FALSE, path |-> <<>>, matched |-> FALSE, full |-> <<>>,
     rest |-> <<>>, captures |-> <<>>, params |-> <<>>]

\* a route or router evaluates its regex on the current path; on a match the
\* captures without the full match go to makeParameters with the Matchable's
\* names, and the matched text is cut off the path
match(path) ==
    LET m == FindStringSubmatch(regex, path)
    IN  /\ request' =
              [active |-> TRUE, path |-> path, matched |-> m.matched,
               full |-> m.full,
               rest |-> Slice(path, Len(m.full), Len(path)),
               captures |-> m.caps,
               params |-> IF m.matched /\ Len(m.caps) > 0
                          THEN makeParameters(m.caps, parameters)
                          ELSE <<>>]
        /\ UNCHANGED <<matchable, binders, configVars>>

\* the request is over: its bound parameters are discarded
endRequest ==
    /\ request' = NoRequest
    /\ UNCHANGED <<matchable, binders, configVars>>

-----------------------------------------------------------------------------
(* Concurrent makeParameters calls on one compiled Matchable (SpecBind) *)

NumGoroutines == 2

Goroutines == 1..NumGoroutines

IdleGor ==
    [pc |-> "idle", match |-> <<>>, names |-> <<>>, i |-> 0, params |-> 0,
     ret |-> 0]

sharedMap(h) ==
    IF Len(h) = 0 THEN [heap |-> Append(h, <<>>), addr |-> 1]
    ELSE [heap |-> h, addr |-> 1]

\* make(map[string]string, n): a new, empty map at a new address
newMap(h) == [heap |-> Append(h, <<>>), addr |-> Len(h) + 1]

\* goroutine g enters makeParameters(m, p.parameters) for a match of the
\* Matchable's regex
bindCall(g, m) ==
    /\ gor[g].pc = "idle"
    /\ gor' = [gor EXCEPT ![g] = [IdleGor EXCEPT !.pc = "make", !.match = m,
                                                 !.names = parameters]]
    /\ UNCHANGED <<matchable, request, heap, configVars>>

\* params := make(map[string]string, len(match))
bindMake(g) ==
    /\ gor[g].pc = "make"
    /\ LET a == newMap(heap)
       IN  /\ heap' = a.heap
           /\ gor' = [gor EXCEPT ![g].pc = "range", ![g].params = a.addr]
    /\ UNCHANGED <<matchable, request, configVars>>

\* one round of "for i, v := range match": params[names[i]] = v, or the
\* return after the last round
bindRange(g) ==
    /\ gor[g].pc = "range"
    /\ \/ /\ gor[g].i < Len(gor[g].match)
          /\ heap' = [heap EXCEPT ![gor[g].params] =
                        mapAssign(@, At(gor[g].names, gor[g].i),
                                  At(gor[g].match, gor[g].i))]
          /\ gor' = [gor EXCEPT ![g].i = @ + 1]
       \/ /\ gor[g].i >= Len(gor[g].match)
          /\ gor' = [gor EXCEPT ![g].pc = "done", ![g].ret = gor[g].params]
          /\ UNCHANGED heap
    /\ UNCHANGED <<matchable, request, configVars>>

\* "/{a}", "/{a}/{b}" and "/{a}/{a}"
BindTemplates ==
    { <<"/", "{", "a", "}">>,
      <<"/", "{", "a", "}", "/", "{", "b", "}">>,
      <<"/", "{", "a", "}", "/", "{", "a", "}">> }

BindValues == {<<"1">>, <<"2">>}

\* the captures a match of the Matchable can hand over: one per name
MatchesFor(names) == [1..Len(names) -> BindValues]

-----------------------------------------------------------------------------
(* Package config: the map config behind the RWMutex mutex.  Every exported  *)
(* function is a sequence of steps of the calling goroutine: lock, the       *)
(* statements that touch the map, unlock.                                    *)

NumCallers == 2

Callers == 1..NumCallers

\* config values: a JSON string or a JSON bool
Str(v) == [kind |-> "string", v |-> v]
Bool(v) == [kind |-> "bool", v |-> v]

ConfigKeys == {"appName", "debug"}

\* the kinds configValidation asks for, for the keys checked
configValidation == [appName |-> "string", debug |-> "bool"]

\* validateEntry(value, key) returns nil
validateEntry(value, key) ==
    key \in DOMAIN configValidation => value.kind = configValidation[key]

\* a nil map, and a map with the entries m
NilMap == [nil |-> TRUE, m |-> <<>>]
Map(m) == [nil |-> FALSE, m |-> m]

\* what defaults.json and the config file may decode to
DefaultsFiles == {[appName |-> Str("goyave"), debug |-> Bool("true")]}
ConfigFiles == {<<>>, [debug |-> Str("yes")]}

ConfigOps ==
    {"Load", "IsLoaded", "Clear", "Get", "Set", "GetString", "GetBool"}

lockKindSetShared(op) ==
    IF op \in {"Load", "Clear"} THEN "w" ELSE "r"

\* the lock a function takes: mutex.Lock() or mutex.RLock()
lockKind(op) ==
    IF op \in {"Load", "Clear", "Set"} THEN "w" ELSE "r"

IdleCaller ==
    [pc |-> "idle", op |-> "none", key |-> "none", val |-> Str("none"),
     ok |-> FALSE, holds |-> "none", result |-> "none"]

\* the goroutine's call has ended; a lock it still holds stays held
Ended(c, result) ==
    [IdleCaller EXCEPT !.holds = c.holds, !.result = result]

\* goroutine p calls op (with key k and, for Set, value v).  Set validates
\* the entry first and panics, before it locks, if it is invalid.
cfgCall(p, op, k, v) ==
    /\ caller[p].pc = "idle"
    /\ caller' =
         [caller EXCEPT ![p] =
            IF op = "Set" /\ ~validateEntry(v, k)
            THEN Ended(@, "panicked")
            ELSE [@ EXCEPT !.pc = "lock", !.op = op, !.key = k, !.val = v,
                           !.result = "none"]]
    /\ UNCHANGED <<matchable, request, binders, config, mutex>>

\* mutex.Lock() or mutex.RLock() returns
cfgLock(p) ==
    /\ caller[p].pc = "lock"
    /\ IF lockKind(caller[p].op) = "w"
       THEN /\ ~mutex.w /\ mutex.r = 0
            /\ mutex' = [mutex EXCEPT !.w = TRUE]
       ELSE /\ ~mutex.w
            /\ mutex' = [mutex EXCEPT !.r = @ + 1]
    /\ caller' = [caller EXCEPT
                    ![p].pc = IF caller[p].op = "Load" THEN "defaults"
                              ELSE "access",
                    ![p].holds = lockKind(caller[p].op)]
    /\ UNCHANGED <<matchable, request, binders, config>>

\* Load: loadDefaults sets config to the content of defaults.json, or fails
\* and leaves it
cfgLoadDefaults(p) ==
    /\ caller[p].pc = "defaults"
    /\ \/ /\ \E d \in DefaultsFiles : config' = Map(d)
          /\ caller' = [caller EXCEPT ![p].pc = "merge", ![p].ok = TRUE]
       \/ /\ UNCHANGED config
          /\ caller' = [caller EXCEPT ![p].pc = "validate", ![p].ok = FALSE]
    /\ UNCHANGED <<matchable, request, binders, mutex>>

\* Load: os.Getwd fails and Load panics, or the entries of the config file
\* (none if it cannot be read) are written over the defaults
cfgLoadMerge(p) ==
    /\ caller[p].pc = "merge"
    /\ \/ /\ caller' = [caller EXCEPT ![p].pc = "unwind"]
          /\ UNCHANGED config
       \/ /\ \E f \in ConfigFiles :
                config' = Map([k \in (DOMAIN config.m) \cup (DOMAIN f) |->
                                 IF k \in DOMAIN f THEN f[k] ELSE config.m[k]])
          /\ caller' = [caller EXCEPT ![p].pc = "validate"]
    /\ UNCHANGED <<matchable, request, binders, mutex>>

\* Load: validateConfig ranges over config
cfgLoadValidate(p) ==
    /\ caller[p].pc = "validate"
    /\ caller' = [caller EXCEPT
                    ![p].pc = "unlock",
                    ![p].ok = /\ caller[p].ok
                              /\ \A k \in DOMAIN config.m :
                                     validateEntry(config.m[k], k)]
    /\ UNCHANGED <<matchable, request, binders, config, mutex>>

\* the statement of IsLoaded, Clear, Get, Set, GetString or GetBool that
\* touches the map.  Assigning to an entry of a nil map panics, and Set has
\* no deferred unlock.
cfgAccess(p) ==
    /\ caller[p].pc = "access"
    /\ LET c == caller[p]
       IN  CASE c.op = "Clear" ->
                  /\ config' = NilMap
                  /\ caller' = [caller EXCEPT ![p].pc = "unlock"]
             [] c.op = "Set" ->
                  IF config.nil
                  THEN /\ caller' = [caller EXCEPT ![p] = Ended(c, "panicked")]
                       /\ UNCHANGED config
                  ELSE /\ config' = Map(mapAssign(config.m, c.key, c.val))
                       /\ caller' = [caller EXCEPT ![p].pc = "unlock"]
             [] c.op = "IsLoaded" ->
                  /\ caller' = [caller EXCEPT ![p].pc = "unlock",
                                              ![p].ok = ~config.nil]
                  /\ UNCHANGED config
             [] OTHER ->
                  /\ caller' =
                       [caller EXCEPT
                          ![p].pc = "unlock",
                          ![p].ok = c.key \in DOMAIN config.m,
                          ![p].val = IF c.key \in DOMAIN config.m
                                     THEN config.m[c.key] ELSE c.val]
                  /\ UNCHANGED config
    /\ UNCHANGED <<matchable, request, binders, mutex>>

\* what the function does once the lock is released: Load returns its error,
\* the getters panic on a missing entry or on an entry of the wrong type
resultOf(c) ==
    IF c.pc = "unwind" THEN "panicked"
    ELSE IF c.op \in {"Get", "GetString", "GetBool"} /\ ~c.ok THEN "panicked"
    ELSE IF c.op = "GetString" /\ c.val.kind # "string" THEN "panicked"
    ELSE IF c.op = "GetBool" /\ c.val.kind # "bool" THEN "panicked"
    ELSE "returned"

\* mutex.Unlock() or mutex.RUnlock(), deferred in Load and IsLoaded, and the
\* rest of the function
cfgUnlock(p) ==
    /\ caller[p].pc \in {"unlock", "unwind"}
    /\ mutex' = IF caller[p].holds = "w" THEN [mutex EXCEPT !.w = FALSE]
                ELSE [mutex EXCEPT !.r = @ - 1]
    /\ caller' = [caller EXCEPT
                    ![p] = [IdleCaller EXCEPT !.result = resultOf(caller[p])]]
    /\ UNCHANGED <<matchable, request, binders, config>>

-----------------------------------------------------------------------------
(* The templates checked: every concatenation of at most MaxParts parts.     *)

MaxParts == 3

Parts ==
    { <<"/">>, <<"{">>, <<"}">>,
      <<"{", "a", "}">>,
      <<"{", "b", ":", "[", "0", "-", "9", "]", "+", "}">>,
      <<"{", "a", ":", "(", "x", ")", "}">>,
      <<"{", "b", ":", "?", ":", "x", "}">>,
      <<"{", "a", ":", "(", "}">>,
      <<"{", ":", "x", "}">>,
      <<"{", ":", "}">>,
      <<"{", "a", ":", "}">>,
      <<"{", "}">> }

RECURSIVE Concats(_, _)
Concats(parts, n) ==
    IF n = 0 THEN {<<>>}
    ELSE LET shorter == Concats(parts, n - 1)
         IN  shorter \cup {p \o t : p \in parts, t \in shorter}

\* "/{id:[0-9]{3}}" and "/{:x}/{"
NestedId ==
    <<"/", "{", "i", "d", ":", "[", "0", "-", "9", "]", "{", "3", "}", "}">>
MissingNameUnclosed == <<"/", "{", ":", "x", "}", "/", "{">>

Templates == Concats(Parts, MaxParts) \cup {NestedId, MissingNameUnclosed}

\* a Matchable as newly constructed: no regex, no parameters
Fresh == regex.nil /\ parameters = <<>> /\ outcome = "none"

Init ==
    /\ regex = NilRegex
    /\ parameters = <<>>
    /\ uri = <<>>
    /\ ends = FALSE
    /\ idxs = <<>>
    /\ outcome = "none"
    /\ wraps = <<>>
    /\ request = NoRequest
    /\ heap = <<>>
    /\ gor = [g \in Goroutines |-> IdleGor]
    /\ config = NilMap
    /\ mutex = [w |-> FALSE, r |-> 0]
    /\ caller = [p \in Callers |-> IdleCaller]

\* a route or a router compiles its template once, when it is created
Next ==
    Fresh /\ \E u \in Templates, e \in BOOLEAN : compileParameters(u, e)

Spec == Init /\ [][Next]_vars

-----------------------------------------------------------------------------
(* compileParameters called again on the same Matchable (SpecRecompile) *)

MaxNames == 3

\* "/", "/{a}", "/{b:[0-9]+}", "{a}/{b}", "{", "{}", "{a}{:x}", "{a}{b:}",
\* "{a}{b:(}" and "{a:(x)}"
RecompileTemplates ==
    { <<"/">>,
      <<"/", "{", "a", "}">>,
      <<"/", "{", "b", ":", "[", "0", "-", "9", "]", "+", "}">>,
      <<"{", "a", "}", "/", "{", "b", "}">>,
      <<"{">>,
      <<"{", "}">>,
      <<"{", "a", "}", "{", ":", "x", "}">>,
      <<"{", "a", "}", "{", "b", ":", "}">>,
      <<"{", "a", "}", "{", "b", ":", "(", "}">>,
      <<"{", "a", ":", "(", "x", ")", "}">> }

\* any number of calls, whether the earlier ones failed or not, as long as
\* the parameters list is short
NextRecompile ==
    /\ Len(parameters) < MaxNames
    /\ \E u \in RecompileTemplates, e \in BOOLEAN : compileParameters(u, e)

SpecRecompile == Init /\ [][NextRecompile]_vars

-----------------------------------------------------------------------------
(* Requests matched against a compiled Matchable (SpecMatch) *)

MaxMatchParts == 2

MaxPathLen == 4

MatchParts ==
    { <<"/", "u">>,
      <<"{", "a", "}">>,
      <<"/", "{", "a", "}">>,
      <<"/", "{", "b", "}">>,
      <<"/", "{", "b", ":", "[", "0", "-", "9", "]", "+", "}">> }

\* "/user/{id}", "/user/{id:[0-9]+}" and "/a/{x}/b/{y:[a-z]+}"
UserId == <<"/", "u", "s", "e", "r", "/", "{", "i", "d", "}">>
UserIdDigits ==
    <<"/", "u", "s", "e", "r", "/",
      "{", "i", "d", ":", "[", "0", "-", "9", "]", "+", "}">>
TwoParams ==
    <<"/", "a", "/", "{", "x", "}", "/", "b", "/",
      "{", "y", ":", "[", "a", "-", "z", "]", "+", "}">>

MatchTemplates ==
    Concats(MatchParts, MaxMatchParts) \cup {UserId, UserIdDigits, TwoParams}

PathChars == {"/", "u", "1"}

RECURSIVE Strings(_, _)
Strings(chars, n) ==
    IF n = 0 THEN {<<>>}
    ELSE LET shorter == Strings(chars, n - 1)
         IN  shorter \cup {Append(t, c) : t \in shorter, c \in chars}

\* "/user/42", "/user/42/extra", "/user/", "/user/123", "/user/abc",
\* "/user/123/profile" and "/a/1/b/foo"
User42 == <<"/", "u", "s", "e", "r", "/", "4", "2">>
User42Extra == User42 \o <<"/", "e", "x", "t", "r", "a">>
UserSlash == <<"/", "u", "s", "e", "r", "/">>
User123 == UserSlash \o <<"1", "2", "3">>
UserAbc == UserSlash \o <<"a", "b", "c">>
User123Profile == User123 \o <<"/", "p", "r", "o", "f", "i", "l", "e">>
A1BFoo == <<"/", "a", "/", "1", "/", "b", "/", "f", "o", "o">>

Paths ==
    Strings(PathChars, MaxPathLen)
      \cup {User42, User42Extra, UserSlash, User123, UserAbc, User123Profile,
            A1BFoo}

NextMatch ==
    \/ Fresh /\ \E u \in MatchTemplates, e \in BOOLEAN : compileParameters(u, e)
    \/ outcome = "ok" /\ ~request.active /\ \E path \in Paths : match(path)
    \/ request.active /\ endRequest

SpecMatch == Init /\ [][NextMatch]_vars

-----------------------------------------------------------------------------
(* The specifications of the two packages' concurrent use *)

\* after its template is compiled, goroutines serving requests bind the
\* captures of their matches, each calling makeParameters once
NextBind ==
    \/ Fresh /\ \E u \in BindTemplates, e \in BOOLEAN : compileParameters(u, e)
    \/ /\ outcome = "ok"
       /\ \E g \in Goroutines, m \in MatchesFor(parameters) : bindCall(g, m)
    \/ \E g \in Goroutines : bindMake(g)
    \/ \E g \in Goroutines : bindRange(g)

SpecBind == Init /\ [][NextBind]_vars

SetValues == {Str("goyave"), Bool("false")}

NoKey == "none"

\* the calls a goroutine can make
ConfigCalls ==
    {[op |-> o, key |-> NoKey, val |-> Str("none")] :
        o \in {"Load", "IsLoaded", "Clear"}}
      \cup {[op |-> o, key |-> k, val |-> Str("none")] :
               o \in {"Get", "GetString", "GetBool"}, k \in ConfigKeys}
      \cup {[op |-> "Set", key |-> k, val |-> v] :
               k \in ConfigKeys, v \in SetValues}

NextConfig ==
    \/ \E p \in Callers, c \in ConfigCalls : cfgCall(p, c.op, c.key, c.val)
    \/ \E p \in Callers : cfgLock(p)
    \/ \E p \in Callers : cfgLoadDefaults(p)
    \/ \E p \in Callers : cfgLoadMerge(p)
    \/ \E p \in Callers : cfgLoadValidate(p)
    \/ \E p \in Callers : cfgAccess(p)
    \/ \E p \in Callers : cfgUnlock(p)

SpecConfig == Init /\ [][NextConfig]_vars

-----------------------------------------------------------------------------
(* Properties of compileParameters on a fresh Matchable (Spec) *)

\* compileParameters has been called
Called == outcome # "none"

\* braceIndices returned indices in the last call
ScannerAccepted == outcome \notin {"none", "unbalanced", "empty"}

\* the nesting depths after the prefixes of s of length 0, 1, .., n
Depths(s, n) ==
    [k \in 1..(n + 1) |->
        Cardinality({i \in 1..(k - 1) : s[i] = "{"})
          - Cardinality({i \in 1..(k - 1) : s[i] = "}"})]

\* the nesting depth after each prefix of s
DepthOf(s) ==
    LET t == Depths(s, Len(s))
    IN  [n \in 0..Len(s) |-> t[n + 1]]

\* the number of times the depth rises from 0 to 1
TopLevelOpens(s) ==
    LET d == DepthOf(s)
    IN  Cardinality({i \in 1..Len(s) : s[i] = "{" /\ d[i - 1] = 0})

\* a '}' with no open '{' before it, or a '{' never closed
Unbalanced(s) ==
    LET d == DepthOf(s)
    IN  (\E n \in 1..Len(s) : d[n] < 0) \/ d[Len(s)] # 0

\* "{}" at top level, met before any '}' that has no open '{'
EarlyEmpty(s) ==
    LET d == DepthOf(s)
    IN  \E i \in 1..(Len(s) - 1) :
            /\ s[i] = "{" /\ s[i + 1] = "}" /\ d[i - 1] = 0
            /\ \A n \in 1..i : d[n] >= 0

\* the body of placeholder k of the last call, and its shape
Body(k) == Slice(uri, idxs[2 * k - 1] + 1, idxs[2 * k])
Placeholders == 1..(Len(idxs) \div 2)
HasColon(b) == \E i \in 1..Len(b) : b[i] = ":"
FirstColon(b) == CHOOSE i \in 1..Len(b) :
                     b[i] = ":" /\ \A j \in 1..(i - 1) : b[j] # ":"
NameEmpty(b) == b[1] = ":"
PatternMissing(b) == ~NameEmpty(b) /\ HasColon(b) /\ FirstColon(b) = Len(b)
Invalid(b) == NameEmpty(b) \/ PatternMissing(b)

\* the pattern the builder holds for placeholder k
Written(k) == Slice(regex.src, wraps[k][1] + 1, wraps[k][2])

\* C1: a template accepted on a fresh Matchable with k top-level placeholders
\* leaves k parameter names and a regex with exactly k capturing groups.
C1_GroupsEqualPlaceholders ==
    outcome = "ok" =>
        /\ Len(idxs) = 2 * TopLevelOpens(uri)
        /\ Len(parameters) = TopLevelOpens(uri)
        /\ NumSubexp(regex) = TopLevelOpens(uri)

C1_Witness ==
    outcome = "ok" /\ TopLevelOpens(uri) = 2 /\ Len(parameters) = 2

\* C2 as stated: every template with unbalanced braces fails with the
\* unbalanced-braces error, whatever else it contains.
C2_UnbalancedAlwaysReported ==
    (Called /\ Unbalanced(uri)) => outcome = "unbalanced"

\* C2 amended: a template with unbalanced braces always fails in the Brace
\* Scanner: with the empty-parameter error when an empty top-level "{}" is met
\* before the unmatched '}' (or anywhere, when it is a '{' that is never
\* closed), with the unbalanced-braces error otherwise.
C2_UnbalancedFailsInScanner ==
    (Called /\ Unbalanced(uri)) =>
        outcome = IF EarlyEmpty(uri) THEN "empty" ELSE "unbalanced"

C2_Witness ==
    /\ Unbalanced(uri) /\ outcome = "unbalanced"
    /\ \E i \in 1..(Len(uri) - 1) : uri[i] = "{" /\ uri[i + 1] = "}"

\* C3 as stated: no template compiles in which a placeholder's subpattern
\* holds a capturing group of its own, so capturing group i of a compiled
\* regex is the group wrapping placeholder i.
C3_GroupsAreTheWrappers ==
    outcome = "ok" =>
        /\ \A k \in 1..Len(wraps) : \A c \in 1..Len(regex.capAt) :
               ~(wraps[k][1] < regex.capAt[c] /\ regex.capAt[c] < wraps[k][2])
        /\ regex.capAt = [k \in 1..Len(wraps) |-> wraps[k][1]]

\* C7 as stated: in a template the scanner accepts, every placeholder with an
\* empty name makes the call fail with the missing-name error and every
\* placeholder with a name and an empty pattern with the missing-pattern error.
C7_EveryPlaceholderDecides ==
    ScannerAccepted =>
        \A k \in Placeholders :
            /\ NameEmpty(Body(k)) => outcome = "missing_name"
            /\ PatternMissing(Body(k)) => outcome = "missing_pattern"

\* C7 amended: in a template the scanner accepts, the leftmost placeholder
\* with an empty name or with a name, a ':' and nothing after the first ':'
\* decides the error (missing name for the former, missing pattern for the
\* latter); with no such placeholder neither error is raised, and the pattern
\* written is the text after the first ':' or, with no ':', "[^/]+".
C7_LeftmostInvalidDecides ==
    ScannerAccepted =>
        LET bad == {k \in Placeholders : Invalid(Body(k))}
        IN  IF bad = {}
            THEN /\ outcome \notin {"missing_name", "missing_pattern"}
                 /\ ~regex.nil =>
                      \A k \in Placeholders :
                          Written(k) =
                            IF HasColon(Body(k))
                            THEN SubSeq(Body(k), FirstColon(Body(k)) + 1,
                                        Len(Body(k)))
                            ELSE DefaultPattern
            ELSE LET k == CHOOSE m \in bad : \A n \in bad : m <= n
                 IN  outcome = IF NameEmpty(Body(k)) THEN "missing_name"
                               ELSE "missing_pattern"

C7_Witness ==
    /\ outcome = "missing_pattern" /\ Len(idxs) = 4
    /\ PatternMissing(Body(1)) /\ NameEmpty(Body(2))

\* C8: the Brace Scanner fails with the empty-parameter error exactly when the
\* first fault of the left-to-right scan is a top-level "{}", and it then
\* returns no indices.
C8_EmptyIsFirstFault ==
    Called =>
        /\ outcome = "empty" <=> EarlyEmpty(uri)
        /\ outcome = "empty" => idxs = <<>>

C8_Witness ==
    outcome = "empty" /\ Len(uri) > 2 /\ uri[1] = "{" /\ uri[2] # "}"

-----------------------------------------------------------------------------
(* Properties of matching (SpecMatch) *)

\* the characters with a meaning in a regular expression
MetaChars ==
    {"\\", ".", "+", "*", "?", "(", ")", "|", "[", "]", "{", "}", "^", "$"}

\* the offsets of u outside every placeholder
Outside(u, ix) ==
    {pos \in 0..(Len(u) - 1) :
        \A k \in 1..(Len(ix) \div 2) : pos < ix[2 * k - 1] \/ pos > ix[2 * k]}

\* the last call compiled a template whose literal text has no metacharacter
\* and whose placeholders all use the default pattern
PlainDefault ==
    /\ outcome = "ok"
    /\ \A k \in Placeholders : ~HasColon(Body(k))
    /\ \A pos \in Outside(uri, idxs) : At(uri, pos) \notin MetaChars

\* s from offset j on is u from offset pos on with every placeholder (k is the
\* next one) replaced by a non-empty string without '/'
RECURSIVE Fits(_, _, _, _, _, _)
Fits(u, ix, pos, k, s, j) ==
    IF pos >= Len(u) THEN j = Len(s)
    ELSE IF k <= Len(ix) \div 2 /\ pos = ix[2 * k - 1]
         THEN \E n \in 1..(Len(s) - j) :
                  /\ \A q \in j..(j + n - 1) : At(s, q) # "/"
                  /\ Fits(u, ix, ix[2 * k] + 1, k + 1, s, j + n)
         ELSE /\ j < Len(s)
              /\ At(s, j) = At(u, pos)
              /\ Fits(u, ix, pos + 1, k, s, j + 1)

\* u from offset pos on with placeholder k, k+1, .. replaced by caps[k], ..
RECURSIVE Subst(_, _, _, _, _)
Subst(u, ix, pos, k, caps) ==
    IF pos >= Len(u) THEN <<>>
    ELSE IF k <= Len(ix) \div 2 /\ pos = ix[2 * k - 1]
         THEN caps[k] \o Subst(u, ix, ix[2 * k] + 1, k + 1, caps)
         ELSE <<At(u, pos)>> \o Subst(u, ix, pos + 1, k, caps)

\* the name "id"
Id == <<"i", "d">>

\* C4: with ends = true, a template with plain literal text and default
\* placeholders matches exactly the paths that are the template with every
\* placeholder replaced by a non-empty string without '/'; the whole path is
\* consumed and every name is bound to the text that replaced its (last)
\* placeholder.  "/user/{id}" matches "/user/42" with id = "42" and matches
\* neither "/user/42/extra" nor "/user/".
C4_DefaultTemplateMatches ==
    (request.active /\ ends /\ PlainDefault) =>
        /\ request.matched <=> Fits(uri, idxs, 0, 1, request.path, 0)
        /\ request.matched =>
             /\ request.full = request.path
             /\ request.rest = <<>>
             /\ Len(request.captures) = Len(parameters)
             /\ Subst(uri, idxs, 0, 1, request.captures) = request.path
             /\ \A c \in 1..Len(request.captures) :
                    /\ request.captures[c] # <<>>
                    /\ \A q \in 1..Len(request.captures[c]) :
                           request.captures[c][q] # "/"
             /\ DOMAIN request.params =
                    {parameters[i] : i \in 1..Len(parameters)}
             /\ \A i \in 1..Len(parameters) :
                    (\A j \in (i + 1)..Len(parameters) :
                         parameters[j] # parameters[i])
                    => request.params[parameters[i]] = request.captures[i]
        /\ uri = UserId =>
             /\ request.path = User42 =>
                    /\ request.matched
                    /\ request.params = [n \in {Id} |-> <<"4", "2">>]
             /\ request.path \in {User42Extra, UserSlash} => ~request.matched

C4_Witness ==
    /\ request.active /\ ends /\ uri = UserId /\ request.path = User42
    /\ request.matched /\ request.params[Id] = <<"4", "2">>

\* C5: with ends = false a path matches exactly when some leading prefix of it
\* matches the same template compiled with ends = true; the matched text is
\* such a prefix, it binds the same captures, and the text after it is left
\* over.  "/user/{id:[0-9]+}" matches "/user/123/profile" with id = "123" and
\* "/profile" left over.
C5_PrefixMode ==
    (request.active /\ ~ends) =>
        LET anchored == compileCall(NilRegex, <<>>, uri, TRUE).regex
        IN  /\ request.matched <=>
                 \E n \in 0..Len(request.path) :
                     FindStringSubmatch(anchored,
                                        Slice(request.path, 0, n)).matched
            /\ request.matched =>
                 /\ request.path = request.full \o request.rest
                 /\ LET m == FindStringSubmatch(anchored, request.full)
                    IN  /\ m.matched
                        /\ m.full = request.full
                        /\ m.caps = request.captures
            /\ (uri = UserIdDigits /\ request.path = User123Profile) =>
                 /\ request.matched
                 /\ request.params = [n \in {Id} |-> <<"1", "2", "3">>]
                 /\ request.rest = <<"/", "p", "r", "o", "f", "i", "l", "e">>

C5_Witness ==
    /\ request.active /\ ~ends /\ uri = UserIdDigits
    /\ request.path = User123Profile /\ request.matched
    /\ request.rest = <<"/", "p", "r", "o", "f", "i", "l", "e">>

-----------------------------------------------------------------------------
(* Properties of makeParameters (SpecBind) *)

\* the map goroutine g has returned
Returned(g) == heap[gor[g].ret]

\* the largest index at which name n stands in names
LastIndex(names, n) ==
    CHOOSE i \in 1..Len(names) :
        /\ names[i] = n
        /\ \A j \in (i + 1)..Len(names) : names[j] # n

\* C6: makeParameters(match, names) with as many names as captures returns a
\* map whose keys are exactly the names and in which every name has the
\* capture at the largest index where that name stands: one entry per
\* placeholder when the names differ, the later value when a name repeats.
C6_LastWriteWins ==
    \A g \in Goroutines :
        gor[g].pc = "done" =>
            /\ Len(gor[g].match) = Len(gor[g].names)
            /\ DOMAIN Returned(g) =
                   {gor[g].names[i] : i \in 1..Len(gor[g].names)}
            /\ \A n \in DOMAIN Returned(g) :
                   Returned(g)[n] = gor[g].match[LastIndex(gor[g].names, n)]
            /\ (\A i, j \in 1..Len(gor[g].names) :
                    i # j => gor[g].names[i] # gor[g].names[j])
               => /\ Cardinality(DOMAIN Returned(g)) = Len(gor[g].names)
                  /\ \A i \in 1..Len(gor[g].names) :
                         Returned(g)[gor[g].names[i]] = gor[g].match[i]

C6_Witness ==
    \E g \in Goroutines :
        /\ gor[g].pc = "done"
        /\ gor[g].names = <<(<<"a">>), (<<"a">>)>>
        /\ gor[g].match = <<(<<"1">>), (<<"2">>)>>
        /\ Returned(g) = [n \in {<<"a">>} |-> <<"2">>]

\* goroutine g is past its make: it has a map of its own
HasMap(g) == gor[g].pc \in {"range", "done"}

\* C9: once compileParameters has returned, no step of any interleaving of
\* makeParameters calls changes the regex or the parameters of the Matchable,
\* no two calls work on the same map, and every call returns the map it would
\* return when run alone.
C9_ConcurrentBindsIsolated ==
    /\ [][outcome # "none" => (regex' = regex /\ parameters' = parameters)]_vars
    /\ [](\A g, h \in Goroutines :
              (g # h /\ HasMap(g) /\ HasMap(h)) => gor[g].params # gor[h].params)
    /\ [](\A g \in Goroutines :
              gor[g].pc = "done" =>
                  Returned(g) = makeParameters(gor[g].match, gor[g].names))

C9_Witness ==
    /\ \A g \in Goroutines : gor[g].pc = "done"
    /\ \E g, h \in Goroutines :
           /\ g # h
           /\ gor[g].ret # gor[h].ret
           /\ Returned(g) # Returned(h)
           /\ gor[g].ret < gor[h].ret
           /\ gor[g].match # gor[h].match

-----------------------------------------------------------------------------
(* Properties of package config (SpecConfig) *)

\* caller p is at a statement that reads the map
Reads(p) ==
    \/ caller[p].pc = "validate"
    \/ /\ caller[p].pc = "access"
       /\ caller[p].op \in {"IsLoaded", "Get", "GetString", "GetBool"}

\* caller p is at a statement that writes the map
Writes(p) ==
    \/ caller[p].pc \in {"defaults", "merge"}
    \/ caller[p].pc = "access" /\ caller[p].op \in {"Clear", "Set"}

\* C10: a caller at a statement that writes the config map has the write lock
\* and a caller at a statement that reads it has the read lock (or, inside
\* Load, the write lock); no caller is at a write while another caller is at
\* any access.
C10_MapAccessUnderLock ==
    \A p \in Callers :
        /\ Writes(p) => (caller[p].holds = "w" /\ mutex.w /\ mutex.r = 0)
        /\ Reads(p) =>
             \/ caller[p].holds = "r" /\ mutex.r > 0 /\ ~mutex.w
             \/ caller[p].op = "Load" /\ caller[p].holds = "w" /\ mutex.w
        /\ \A q \in Callers \ {p} : Writes(p) => ~(Reads(q) \/ Writes(q))

C10_Witness ==
    \E p, q \in Callers :
        /\ p # q
        /\ caller[p].pc = "access" /\ caller[p].op = "Set" /\ ~config.nil
        /\ caller[q].pc = "lock" /\ caller[q].op \in {"Get", "Set"}

-----------------------------------------------------------------------------
(* Properties of the Brace Scanner's pairs and of the compiled source (Spec) *)

\* the offsets of the '{' that raise the depth from 0 to 1 and of the '}' that
\* lower it from 1 to 0
OpensOf(s) ==
    LET t == Depths(s, Len(s))
    IN  {i \in 0..(Len(s) - 1) : At(s, i) = "{" /\ t[i + 1] = 0}
ClosesOf(s) ==
    LET t == Depths(s, Len(s))
    IN  {i \in 0..(Len(s) - 1) : At(s, i) = "}" /\ t[i + 2] = 0}

\* the k-th smallest element of a set of numbers
Nth(S, k) == CHOOSE x \in S : Cardinality({y \in S : y < x}) = k - 1

\* C11: when braceIndices succeeds the indices are pairs (open, close) with
\* '{' at open, '}' at close and close > open + 1; every open lies after the
\* previous close; there are as many pairs as rises of the depth from 0 to 1.
C11_PairsWellFormed ==
    ScannerAccepted =>
        /\ Len(idxs) % 2 = 0
        /\ Len(idxs) \div 2 = TopLevelOpens(uri)
        /\ \A k \in Placeholders :
               /\ At(uri, idxs[2 * k - 1]) = "{"
               /\ At(uri, idxs[2 * k]) = "}"
               /\ idxs[2 * k] > idxs[2 * k - 1] + 1
               /\ k > 1 => idxs[2 * k - 1] > idxs[2 * k - 2]

C11_Witness ==
    /\ ScannerAccepted /\ Len(idxs) = 4
    /\ idxs[3] > idxs[2] + 1
    /\ idxs[2] > idxs[1] + 2

\* the offsets of s that hold a brace inside a placeholder
NestedBraces(s) ==
    LET t == Depths(s, Len(s))
    IN  {i \in 0..(Len(s) - 1) :
            \/ At(s, i) = "{" /\ t[i + 1] >= 1
            \/ At(s, i) = "}" /\ t[i + 2] >= 1}

\* C13: a brace nested inside a placeholder is no index of braceIndices: the
\* pairs are the outermost braces, and the name and the pattern written for a
\* placeholder are its whole body, nested braces included.  "/{id:[0-9]{3}}"
\* has the one pair (1, 13), the parameter "id", the subpattern "[0-9]{3}" and
\* one capturing group.
C13_NestedBracesBelongToBody ==
    /\ ScannerAccepted =>
         /\ \A k \in Placeholders :
                /\ idxs[2 * k - 1] = Nth(OpensOf(uri), k)
                /\ idxs[2 * k] = Nth(ClosesOf(uri), k)
         /\ \A i \in NestedBraces(uri) :
                /\ \A j \in 1..Len(idxs) : idxs[j] # i
                /\ \E k \in Placeholders :
                       idxs[2 * k - 1] < i /\ i < idxs[2 * k]
    /\ ~regex.nil =>
         \A k \in Placeholders :
             Body(k) = IF HasColon(Body(k))
                       THEN parameters[k] \o <<":">> \o Written(k)
                       ELSE parameters[k]
    /\ (Called /\ uri = NestedId) =>
         /\ outcome = "ok"
         /\ idxs = <<1, 13>>
         /\ parameters = <<Id>>
         /\ Written(1) = <<"[", "0", "-", "9", "]", "{", "3", "}">>
         /\ NumSubexp(regex) = 1

C13_Witness ==
    /\ uri = NestedId /\ outcome = "ok" /\ idxs = <<1, 13>>
    /\ NestedBraces(uri) = {10, 12}

\* the k-th top-level pair of the template of the last call, and its body
OpenOf(k) == Nth(OpensOf(uri), k)
CloseOf(k) == Nth(ClosesOf(uri), k)
TopBody(k) == Slice(uri, OpenOf(k) + 1, CloseOf(k))

\* the text of a body before its first ':', and the pattern it stands for
BodyName(b) == IF HasColon(b) THEN SubSeq(b, 1, FirstColon(b) - 1) ELSE b
BodyPattern(b) ==
    IF HasColon(b) THEN SubSeq(b, FirstColon(b) + 1, Len(b))
    ELSE <<"[", "^", "/", "]", "+">>

\* the source from pair k on, prev being the offset after the previous '}'
RECURSIVE ExpectedFrom(_, _)
ExpectedFrom(k, prev) ==
    IF k > Cardinality(OpensOf(uri)) THEN Slice(uri, prev, Len(uri))
    ELSE Slice(uri, prev, OpenOf(k))
           \o <<"(">> \o BodyPattern(TopBody(k)) \o <<")">>
           \o ExpectedFrom(k + 1, CloseOf(k) + 1)

ExpectedSource ==
    <<"^">> \o ExpectedFrom(1, 0) \o (IF ends THEN <<"$">> ELSE <<>>)

\* C12: for an accepted template the regex source is "^", then for each
\* top-level pair in order the text since the previous '}' unchanged and
\* "(" pattern ")" with the pattern the text after the first ':' of the body
\* or "[^/]+", then the text after the last '}', then "$" iff ends; the
\* parameters are the texts before the first ':' of the bodies, in order.
C12_ExactSource ==
    outcome = "ok" =>
        /\ regex.src = ExpectedSource
        /\ parameters =
             [k \in 1..TopLevelOpens(uri) |-> BodyName(TopBody(k))]

C12_Witness ==
    /\ outcome = "ok" /\ ends /\ Len(parameters) = 2
    /\ ~HasColon(TopBody(1)) /\ HasColon(TopBody(2))
    /\ uri[Len(uri)] = "/"
    /\ regex.src = ExpectedSource

\* the outcomes the stages allow in their order: the scanner's first fault;
\* else the error of the leftmost invalid body, its name before its pattern;
\* else the regex that did not compile, so that none is stored; else the
\* group count of the regex stored
StageOutcomes ==
    IF EarlyEmpty(uri) THEN {"empty"}
    ELSE IF Unbalanced(uri) THEN {"unbalanced"}
    ELSE LET n == TopLevelOpens(uri)
             bad == {k \in 1..n : Invalid(TopBody(k))}
         IN  IF bad # {}
             THEN LET k == CHOOSE m \in bad : \A j \in bad : m <= j
                  IN  IF NameEmpty(TopBody(k)) THEN {"missing_name"}
                      ELSE {"missing_pattern"}
             ELSE IF regex.nil THEN {"invalid_regex"}
                  ELSE IF NumSubexp(regex) # n THEN {"capture_groups"}
                  ELSE {"ok"}

\* C14: a call fails at the first stage that has a fault: the Brace Scanner
\* with the fault it meets first, before any body is examined; then the
\* leftmost invalid placeholder, its name before its pattern; then the regex
\* that does not compile; last the capturing-group count.  "/{:x}/{" fails as
\* unbalanced, not as a missing name.
C14_StageOrder ==
    Called =>
        /\ outcome \in StageOutcomes
        /\ outcome = "invalid_regex" => regex.nil
        /\ outcome \in {"capture_groups", "ok"} => regex.src = ExpectedSource
        /\ uri = MissingNameUnclosed => outcome = "unbalanced"

C14_Witness ==
    /\ uri = MissingNameUnclosed /\ outcome = "unbalanced"
    /\ NameEmpty(Slice(uri, 2, 4))

-----------------------------------------------------------------------------
(* Properties of repeated calls (SpecRecompile) *)

\* the names of the placeholders of the template of the last call
LastNames == [k \in 1..TopLevelOpens(uri) |-> BodyName(TopBody(k))]

\* the leftmost placeholder of the last call with an invalid body
FirstInvalid ==
    CHOOSE m \in 1..TopLevelOpens(uri) :
        /\ Invalid(TopBody(m))
        /\ \A j \in 1..(m - 1) : ~Invalid(TopBody(j))

\* C15: after a successful compileParameters call, also one on a Matchable
\* compiled before, parameters holds exactly the names of the placeholders of
\* the template just compiled, as many as the regex has capturing groups.
C15_ParametersOfLastTemplate ==
    outcome = "ok" =>
        /\ parameters = LastNames
        /\ Len(parameters) = NumSubexp(regex)

\* C16 as stated: a call that fails leaves regex and parameters as they were
\* before the call.
C16_FailedCallChangesNothing ==
    [][outcome' \notin {"none", "ok"}
          => (regex' = regex /\ parameters' = parameters)]_vars

\* C16 amended: a call that fails in the Brace Scanner leaves regex and
\* parameters as they were; one that fails on a placeholder body leaves regex
\* as it was and has appended the names of the placeholders before that body;
\* one that fails on an invalid regex leaves regex as it was and has appended
\* the names of all its placeholders; one that fails on the capturing-group
\* count has stored the new regex and appended the names of all its
\* placeholders.
C16_FailureEffects ==
    [][/\ outcome' \in {"unbalanced", "empty"}
            => (regex' = regex /\ parameters' = parameters)
       /\ outcome' \in {"missing_name", "missing_pattern"}
            => /\ regex' = regex
               /\ parameters' =
                    parameters \o SubSeq(LastNames', 1, FirstInvalid' - 1)
       /\ outcome' = "invalid_regex"
            => (regex' = regex /\ parameters' = parameters \o LastNames')
       /\ outcome' = "capture_groups"
            => /\ ~regex'.nil
               /\ regex'.src = ExpectedSource'
               /\ parameters' = parameters \o LastNames']_vars

C16_Witness ==
    /\ outcome \in {"missing_name", "missing_pattern"}
    /\ ~regex.nil
    /\ regex.src # ExpectedSource
    /\ Len(parameters) = 2
    /\ parameters[2] = LastNames[1]

-----------------------------------------------------------------------------
(* Properties of the end of a config call (SpecConfig) *)

\* C17: no call of Load, IsLoaded, Clear, Get, Set, GetString or GetBool ends,
\* by returning or by panicking, with the mutex still held by it; so when no
\* call is under way the mutex is free for the next call.
C17_NoCallEndsHoldingMutex ==
    /\ \A p \in Callers :
           caller[p].pc = "idle" => caller[p].holds = "none"
    /\ (\A p \in Callers : caller[p].pc = "idle")
           => (~mutex.w /\ mutex.r = 0)

====
